---- MODULE Spec2Model ----
(***************************************************************************)
(* Model of ethusd_live_chart.py: the AdvancedLiveChart object (a          *)
(* LiveETHUSDChart with price alerts), its main thread (start_live_chart), *)
(* the WebSocket thread that delivers the callbacks, and the animation     *)
(* timer that redraws the chart from the candle deque.                     *)
(*                                                                         *)
(* Prices and volumes are integers standing for the floats of the code;    *)
(* the derived 'datetime' field of a candle is a function of 'time' and is *)
(* not kept.  A field of a JSON message is a tagged value: a number, a     *)
(* string float() cannot parse, or an absent key.                          *)
(***************************************************************************)
EXTENDS Integers, Sequences, FiniteSets, TLC

\* ------------------------------------------------------------------ bounds
MaxCap    == 3   \* largest deque capacity tried (the program uses 100)
MaxTime   == 4   \* candle times are 1..MaxTime seconds
MaxAlerts == 2   \* alerts the caller registers in one run

\* --------------------------------------------------------- program constants
Micro == 1000000     \* candle_start_time // 1000000
Limb  == 1024        \* base of the digits of an integer too large for one word

Times  == 1..MaxTime
Closes == {99, 100}
AlertCloses == {99, 100, 150}
Thresholds == {100}

\* ------------------------------------------------------------- JSON values
Num(n)  == [k |-> "num", v |-> n]
Bad     == [k |-> "bad", v |-> 0]        \* a string that is no number
Missing == [k |-> "missing", v |-> 0]    \* the key is absent
\* An integer of more than 31 bits, as its digits in base Limb, most
\* significant first.
Big(digits) == [k |-> "big", v |-> digits]

\* 1_700_000_000_000_000 and 1_700_000_000_999_999 microseconds.
EpochStart == Big(<<1, 522, 144, 385, 912, 0>>)
EpochLate  == Big(<<1, 522, 144, 386, 864, 575>>)

\* A message as the transport hands it over.  wire = "text" is text that is
\* not JSON, wire = "array" is JSON that is not an object.
Msg(wire, type, symbol, cst, o, h, l, c, v) ==
    [wire |-> wire, type |-> type, symbol |-> symbol, candle_start_time |-> cst,
     open |-> o, high |-> h, low |-> l, close |-> c, volume |-> v]

CandleMsg(cst, o, h, l, c, v) ==
    Msg("object", "candlestick_1m", "ETHUSD", cst, o, h, l, c, v)

PlainCandleMsg(t, p) ==
    CandleMsg(Num(t * Micro), Num(p), Num(p), Num(p), Num(p), Num(1))

TickerMsg(symbol, c) ==
    Msg("object", "ticker", symbol, Missing, Missing, Missing, Missing, c, Missing)

NoMsg == Msg("none", "none", "none", Missing, Missing, Missing, Missing, Missing, Missing)

WellFormedCandles == {PlainCandleMsg(t, p) : t \in Times, p \in Closes}

\* Candle messages that carry a negative number, lack the volume, or start
\* inside a second.
OddCandles ==
    {CandleMsg(Num(2 * Micro), Num(100), Num(100), Num(0 - 1), Num(100), Num(1)),
     CandleMsg(Num(2 * Micro), Num(100), Num(100), Num(100), Num(100), Missing),
     CandleMsg(Num(1 * Micro + 999999), Num(99), Num(99), Num(99), Num(99), Num(1))}

\* Candle messages float() or the key lookup rejects.
BrokenCandles ==
    {CandleMsg(Num(2 * Micro), Bad, Num(100), Num(100), Num(100), Num(1)),
     CandleMsg(Num(2 * Micro), Num(100), Num(100), Num(100), Missing, Num(1)),
     CandleMsg(Num(2 * Micro), Num(100), Num(100), Num(100), Num(100), Bad)}

Tickers == {TickerMsg("ETHUSD", Num(150))}

Others ==
    {Msg("object", "candlestick_1m", "BTCUSD", Num(2 * Micro), Num(150), Num(150), Num(150), Num(150), Num(1)),
     Msg("object", "candlestick_5m", "ETHUSD", Num(2 * Micro), Num(150), Num(150), Num(150), Num(150), Num(1)),
     Msg("text", "none", "none", Missing, Missing, Missing, Missing, Missing, Missing)}

\* The feed of a run without alerts: every kind of message, two prices.
Messages == WellFormedCandles \cup OddCandles \cup BrokenCandles \cup Tickers \cup Others

\* The feed of a run with alerts: the open one-minute bar refined at three
\* prices, a ticker, and one message of each kind the handler drops.
AlertMessages ==
    {PlainCandleMsg(MaxTime, p) : p \in AlertCloses}
    \cup {TickerMsg("ETHUSD", Num(150)),
          CandleMsg(Num(2 * Micro), Bad, Num(150), Num(150), Num(150), Num(1)),
          Msg("object", "candlestick_1m", "BTCUSD", Num(2 * Micro), Num(150), Num(150), Num(150), Num(150), Num(1)),
          Msg("text", "none", "none", Missing, Missing, Missing, Missing, Missing, Missing)}

\* The feed of a run at real epoch times: start times in microseconds, on and
\* inside a second boundary, next to the small ones.
EpochMessages ==
    {CandleMsg(EpochStart, Num(99), Num(99), Num(99), Num(99), Num(1)),
     CandleMsg(EpochLate, Num(100), Num(100), Num(100), Num(100), Num(1)),
     CandleMsg(Num(1 * Micro + 999999), Num(99), Num(99), Num(99), Num(99), Num(1)),
     CandleMsg(Num(2147 * Micro + 483647), Num(99), Num(99), Num(99), Num(99), Num(1)),
     PlainCandleMsg(1, 99),
     PlainCandleMsg(2, 99)}

\* The feed of a run watched by the renderer: candles at two times and two
\* prices.
RenderMessages == {PlainCandleMsg(t, p) : t \in {1, 2}, p \in {99, 150}}

\* ---------------------------------------------------------------- candles
Candle(t, o, h, l, c, v) ==
    [time |-> t, open |-> o, high |-> h, low |-> l, close |-> c, volume |-> v]

HistCandle(t) == Candle(t, 100, 100, 100, 100, 1)

\* What the history endpoint can answer: a failed request, success = false,
\* an empty result, or runs of consecutive one-minute candles.
HistRun(a, b) == [i \in 1..(b - a + 1) |-> HistCandle(a + i - 1)]

Responses ==
    {[ok |-> FALSE, success |-> FALSE, result |-> << >>],
     [ok |-> TRUE,  success |-> FALSE, result |-> << >>],
     [ok |-> TRUE,  success |-> TRUE,  result |-> << >>]}
    \cup {[ok |-> TRUE, success |-> TRUE, result |-> HistRun(a, b)] :
             a \in {1}, b \in 1..MaxTime}

\* What the history endpoint can answer when nothing is assumed about the
\* order of its result: also descending runs and a repeated candle.
AnyResponses ==
    Responses
    \cup {[ok |-> TRUE, success |-> TRUE, result |-> <<HistCandle(2), HistCandle(1)>>],
          [ok |-> TRUE, success |-> TRUE, result |-> <<HistCandle(1), HistCandle(1)>>],
          [ok |-> TRUE, success |-> TRUE,
           result |-> [i \in 1..MaxTime |-> HistCandle(MaxTime + 1 - i)]]}

VARIABLES
    maxlen,         \* the deque's maxlen
    live_candles,   \* self.live_candles
    price_alerts,   \* self.price_alerts
    fired,          \* per alert, the prices of the ALERT lines printed for it
    pc,             \* the main thread: "start", "fetched", "failed", "running"
    ws,             \* the connection: "none", "connecting", "open", "closed"
    sent,           \* the channel names of the subscribe requests sent
    last,           \* the message handled last, how the handler left, and
                    \* the alerts whose ALERT line it printed, in order
    rpc,            \* the animation callback: "idle", "copy", "draw"
    df              \* the rows update_chart copied from the deque

vars == <<maxlen, live_candles, price_alerts, fired, pc, ws, sent, last, rpc, df>>


\* ------------------------------------------------------------------- deque
\* collections.deque(maxlen = n).append(x): a full deque drops its leftmost
\* element.
deque_append_unbounded(d, x, n) == Append(d, x)

deque_append_drop_newest(d, x, n) ==
    IF Len(d) >= n THEN Append(SubSeq(d, 1, Len(d) - 1), x) ELSE Append(d, x)

deque_append(d, x, n) ==
    IF Len(d) >= n THEN Tail(d) \o <<x>> ELSE Append(d, x)

\* for candle in data['result']: self.live_candles.append(candle)
RECURSIVE append_all(_, _, _)
append_all(d, cs, n) ==
    IF cs = << >> THEN d
    ELSE append_all(deque_append(d, Head(cs), n), Tail(cs), n)

\* fetch_initial_data returns True iff the request succeeded, success is set
\* and the result is a non-empty list.
fetch_ok(r) == r.ok /\ r.success /\ r.result # << >>

\* --------------------------------------------------------- message handling
\* float(x) succeeds on a number and raises on anything else.
CanFloat(x) == x.k = "num"
Float(x) == x.v

IsCandleMsg_any_symbol(m) == m.type = "candlestick_1m"

\* data.get('type') == 'candlestick_1m' and data.get('symbol') == 'ETHUSD'
IsCandleMsg(m) == m.type = "candlestick_1m" /\ m.symbol = "ETHUSD"

\* data.get('type') == 'ticker' and data.get('symbol') == 'ETHUSD'
IsTickerMsg(m) == m.type = "ticker" /\ m.symbol = "ETHUSD"

\* Building the candle dict raises (KeyError, ValueError, TypeError) when
\* candle_start_time is absent, when one of open, high, low, close is absent
\* or no number, or when a volume is present and no number.
CandleRaises_volume_required(m) ==
    \/ m.candle_start_time.k \notin {"num", "big"}
    \/ ~CanFloat(m.open)
    \/ ~CanFloat(m.high)
    \/ ~CanFloat(m.low)
    \/ ~CanFloat(m.close)
    \/ ~CanFloat(m.volume)

CandleRaises(m) ==
    \/ m.candle_start_time.k \notin {"num", "big"}
    \/ ~CanFloat(m.open)
    \/ ~CanFloat(m.high)
    \/ ~CanFloat(m.low)
    \/ ~CanFloat(m.close)
    \/ (m.volume.k # "missing" /\ ~CanFloat(m.volume))

\* x // n for an integer x given by its digits: long division, digit by
\* digit from the most significant, carrying the remainder.
RECURSIVE divrem(_, _, _, _, _)
divrem(digits, i, n, q, r) ==
    IF i > Len(digits) THEN [q |-> q, r |-> r]
    ELSE LET cur == r * Limb + digits[i]
         IN divrem(digits, i + 1, n, q * Limb + cur \div n, cur % n)

\* x // n, Python's floor division of integers (x >= 0, n > 0).
floordiv(x, n) ==
    IF x.k = "big" THEN divrem(x.v, 1, n, 0, 0).q ELSE x.v \div n

\* x // n replaced by rounding to the nearest whole number.
nearest(x, n) ==
    IF x.k = "big"
    THEN LET d == divrem(x.v, 1, n, 0, 0) IN d.q + (IF 2 * d.r >= n THEN 1 ELSE 0)
    ELSE (x.v + n \div 2) \div n

ParsedCandle_rounded(m) ==
    Candle(nearest(m.candle_start_time, Micro),
           Float(m.open), Float(m.high), Float(m.low), Float(m.close),
           IF m.volume.k = "missing" THEN 0 ELSE Float(m.volume))

\* The candle dict of lines 72-80.
ParsedCandle(m) ==
    Candle(floordiv(m.candle_start_time, Micro),
           Float(m.open), Float(m.high), Float(m.low), Float(m.close),
           IF m.volume.k = "missing" THEN 0 ELSE Float(m.volume))

\* Lines 83-88: replace the last candle when the times are equal, else append.
upsert_always_append(d, c, n) == deque_append(d, c, n)

upsert_by_key(d, c, n) ==
    IF \E i \in DOMAIN d : d[i].time = c.time
    THEN [i \in DOMAIN d |-> IF d[i].time = c.time THEN c ELSE d[i]]
    ELSE deque_append(d, c, n)

upsert(d, c, n) ==
    IF Len(d) > 0 /\ d[Len(d)].time = c.time
    THEN [d EXCEPT ![Len(d)] = c]
    ELSE deque_append(d, c, n)

\* How LiveETHUSDChart.on_websocket_message leaves: "candle" and "ticker" are
\* the two branches, "ignored" is neither, "json_error" and "error" are the
\* two except clauses.
Outcome(m) ==
    IF m.wire = "text" THEN "json_error"
    ELSE IF m.wire = "array" THEN "error"
    ELSE IF IsCandleMsg(m) THEN (IF CandleRaises(m) THEN "error" ELSE "candle")
    ELSE IF IsTickerMsg(m) THEN "ticker"
    ELSE "ignored"

\* The branch of lines 83-88 a candle message takes: line 85 or line 88.
Branch(d, m) ==
    IF Outcome(m) # "candle" THEN "none"
    ELSE IF Len(d) > 0 /\ d[Len(d)].time = ParsedCandle(m).time THEN "replace"
    ELSE "append"

\* The deque after LiveETHUSDChart.on_websocket_message.
handle(d, m, n) ==
    IF Outcome(m) = "candle" THEN upsert(d, ParsedCandle(m), n) ELSE d

\* ------------------------------------------------------------------ alerts
Alert(price, type) == [price |-> price, type |-> type, triggered |-> FALSE]

\* The condition under which check_alerts prints ALERT and sets triggered.
Fires_rearmed(alert, current_price) ==
    \/ alert.type = "above" /\ current_price >= alert.price
    \/ alert.type = "below" /\ current_price <= alert.price

Fires(alert, current_price) ==
    /\ ~alert.triggered
    /\ \/ alert.type = "above" /\ current_price >= alert.price
       \/ alert.type = "below" /\ current_price <= alert.price

check_alerts_break(alerts, current_price) ==
    [i \in DOMAIN alerts |->
        IF /\ Fires(alerts[i], current_price)
           /\ \A j \in 1..(i - 1) : ~Fires(alerts[j], current_price)
        THEN [alerts[i] EXCEPT !.triggered = TRUE]
        ELSE alerts[i]]

check_alerts(alerts, current_price) ==
    [i \in DOMAIN alerts |->
        IF Fires(alerts[i], current_price)
        THEN [alerts[i] EXCEPT !.triggered = TRUE]
        ELSE alerts[i]]

\* The ALERT lines check_alerts prints: per alert, the prices printed.
print_alerts(printed, alerts, current_price) ==
    [i \in DOMAIN alerts |->
        IF Fires(alerts[i], current_price)
        THEN Append(printed[i], current_price)
        ELSE printed[i]]

\* The ALERT lines one check_alerts call prints, in the order of the for
\* loop: the indexes of the alerts that fire, from alert i on.
RECURSIVE alert_lines(_, _, _)
alert_lines(alerts, i, current_price) ==
    IF i > Len(alerts) THEN << >>
    ELSE (IF Fires(alerts[i], current_price) THEN <<i>> ELSE << >>)
         \o alert_lines(alerts, i + 1, current_price)

\* ------------------------------------------------------------------- state
Init ==
    /\ maxlen \in 1..MaxCap
    /\ live_candles = << >>
    /\ price_alerts = << >>
    /\ fired = << >>
    /\ pc = "start"
    /\ ws = "none"
    /\ sent = << >>
    /\ last = [msg |-> NoMsg, outcome |-> "none", branch |-> "none", printed |-> << >>]
    /\ rpc = "idle"
    /\ df = << >>

\* start_live_chart, lines 276-279: the backfill, and the return when it fails.
Fetch(r) ==
    /\ pc = "start"
    /\ IF fetch_ok(r)
       THEN /\ live_candles' = append_all(live_candles, r.result, maxlen)
            /\ pc' = "fetched"
       ELSE /\ pc' = "failed"
            /\ UNCHANGED live_candles
    /\ UNCHANGED <<maxlen, price_alerts, fired, ws, sent, last, rpc, df>>

FetchInitialData == \E r \in Responses : Fetch(r)

FetchAnyData == \E r \in AnyResponses : Fetch(r)

\* start_live_chart, lines 281-292: the WebSocket thread is started, then the
\* animation.
StartWebsocket_no_return ==
    /\ pc \in {"fetched", "failed"}
    /\ pc' = "running"
    /\ ws' = "connecting"
    /\ UNCHANGED <<maxlen, live_candles, price_alerts, fired, sent, last, rpc, df>>

StartWebsocket_before_fetch ==
    /\ pc \in {"start", "fetched"}
    /\ ws = "none"
    /\ pc' = IF pc = "fetched" THEN "running" ELSE pc
    /\ ws' = "connecting"
    /\ UNCHANGED <<maxlen, live_candles, price_alerts, fired, sent, last, rpc, df>>

StartWebsocket ==
    /\ pc = "fetched"
    /\ pc' = "running"
    /\ ws' = "connecting"
    /\ UNCHANGED <<maxlen, live_candles, price_alerts, fired, sent, last, rpc, df>>

\* json.dumps of the subscribe request for one channel, lines 111-134.
Subscribe(name) == [type |-> "subscribe", name |-> name, symbols |-> <<"ETHUSD">>]

\* on_websocket_open, lines 136-137: the two ws.send calls.
OnWebsocketOpen_ticker_first ==
    /\ ws = "connecting"
    /\ ws' = "open"
    /\ sent' = sent \o <<Subscribe("v2/ticker"), Subscribe("candlestick_1m")>>
    /\ UNCHANGED <<maxlen, live_candles, price_alerts, fired, pc, last, rpc, df>>

OnWebsocketOpen ==
    /\ ws = "connecting"
    /\ ws' = "open"
    /\ sent' = sent \o <<Subscribe("candlestick_1m"), Subscribe("v2/ticker")>>
    /\ UNCHANGED <<maxlen, live_candles, price_alerts, fired, pc, last, rpc, df>>

\* AdvancedLiveChart.on_websocket_message: the base handler, then check_alerts
\* on the close of the last candle when the deque is not empty.
Handle(m) ==
    /\ ws = "open"
    /\ LET d == handle(live_candles, m, maxlen) IN
          /\ live_candles' = d
          /\ last' = [msg |-> m, outcome |-> Outcome(m), branch |-> Branch(live_candles, m),
                      printed |-> IF d # << >>
                                  THEN alert_lines(price_alerts, 1, d[Len(d)].close)
                                  ELSE << >>]
          /\ IF d # << >>
             THEN /\ price_alerts' = check_alerts(price_alerts, d[Len(d)].close)
                  /\ fired' = print_alerts(fired, price_alerts, d[Len(d)].close)
             ELSE UNCHANGED <<price_alerts, fired>>
    /\ UNCHANGED <<maxlen, pc, ws, sent, rpc, df>>

OnWebsocketClose ==
    /\ ws \in {"connecting", "open"}
    /\ ws' = "closed"
    /\ UNCHANGED <<maxlen, live_candles, price_alerts, fired, pc, sent, last, rpc, df>>

AddPriceAlert ==
    /\ Len(price_alerts) < MaxAlerts
    /\ \E price \in Thresholds, type \in {"above", "below"} :
          price_alerts' = Append(price_alerts, Alert(price, type))
    /\ fired' = Append(fired, << >>)
    /\ UNCHANGED <<maxlen, live_candles, pc, ws, sent, last, rpc, df>>

\* update_chart, lines 167-168: the length test.
UpdateChartTest ==
    /\ pc = "running"
    /\ rpc = "idle"
    /\ rpc' = IF Len(live_candles) < 2 THEN "idle" ELSE "copy"
    /\ UNCHANGED <<maxlen, live_candles, price_alerts, fired, pc, ws, sent, last, df>>

\* update_chart, line 175: df = pd.DataFrame(list(self.live_candles)).
UpdateChartCopy ==
    /\ rpc = "copy"
    /\ df' = live_candles
    /\ rpc' = "draw"
    /\ UNCHANGED <<maxlen, live_candles, price_alerts, fired, pc, ws, sent, last>>

\* update_chart, lines 178-184: the frame is drawn and df goes out of scope.
UpdateChartDraw ==
    /\ rpc = "draw"
    /\ df' = << >>
    /\ rpc' = "idle"
    /\ UNCHANGED <<maxlen, live_candles, price_alerts, fired, pc, ws, sent, last>>

OnWebsocketMessage == \E m \in Messages : Handle(m)

OnAlertFeedMessage == \E m \in AlertMessages : Handle(m)

OnRenderFeedMessage == \E m \in RenderMessages : Handle(m)

OnEpochFeedMessage == \E m \in EpochMessages : Handle(m)

\* The program as shipped: no alert is registered (lines 340-342 are
\* commented out).  The renderer only reads the deque and is left to
\* SpecRender.
Next ==
    \/ FetchInitialData
    \/ StartWebsocket
    \/ OnWebsocketOpen
    \/ OnWebsocketMessage
    \/ OnWebsocketClose

Spec == Init /\ [][Next]_vars

\* The program with the caller registering alerts before or during the run.
NextAlerts ==
    \/ FetchInitialData
    \/ StartWebsocket
    \/ OnWebsocketOpen
    \/ OnAlertFeedMessage
    \/ OnWebsocketClose
    \/ AddPriceAlert

SpecAlerts == Init /\ [][NextAlerts]_vars

\* The program with the animation timer running beside the WebSocket thread.
NextRender ==
    \/ FetchInitialData
    \/ StartWebsocket
    \/ OnWebsocketOpen
    \/ OnRenderFeedMessage
    \/ OnWebsocketClose
    \/ UpdateChartTest
    \/ UpdateChartCopy
    \/ UpdateChartDraw

SpecRender == Init /\ [][NextRender]_vars

\* The program over a history endpoint that may answer in any order.
NextBackfill ==
    \/ FetchAnyData
    \/ StartWebsocket
    \/ OnWebsocketOpen
    \/ OnRenderFeedMessage
    \/ OnWebsocketClose

SpecBackfill == Init /\ [][NextBackfill]_vars

\* The program fed with candles stamped in microseconds since the epoch.
NextEpoch ==
    \/ FetchInitialData
    \/ StartWebsocket
    \/ OnWebsocketOpen
    \/ OnEpochFeedMessage
    \/ OnWebsocketClose

SpecEpoch == Init /\ [][NextEpoch]_vars

\* ------------------------------------------------------------------ claims
LastOf(d) == d[Len(d)]

TimesOf(d) == [i \in DOMAIN d |-> d[i].time]

Ascending(d) == \A i \in 1..(Len(d) - 1) : d[i].time < d[i + 1].time

DistinctTimes(d) == \A i, j \in DOMAIN d : i # j => d[i].time # d[j].time

\* A step of the message handler; the message it handles is last'.msg.
HandlerStep == Handle(last'.msg)

\* A handler step that takes its message as a candle update for a non-empty
\* series.
CandleStep == HandlerStep /\ last'.outcome = "candle" /\ live_candles # << >>

\* C1: a candle update older than the last candle of a non-empty series is
\* rejected and leaves the series exactly as it was.
C1_OutOfOrderRejected ==
    [][LET m == last'.msg IN
          (CandleStep /\ ParsedCandle(m).time < LastOf(live_candles).time)
          => live_candles' = live_candles]_vars

\* C2: in every reachable state the series is strictly ascending by time and
\* no two candles share a time.
C2_AscendingDistinct == Ascending(live_candles) /\ DistinctTimes(live_candles)

\* C3: the series, and every snapshot the renderer copies from it, holds at
\* most maxlen candles, for every capacity 1..MaxCap and every backfill length.
C3_LengthAtMostCapacity == Len(live_candles) <= maxlen /\ Len(df) <= maxlen

\* C3 witness: the renderer holds a snapshot of a full deque of the largest
\* capacity, and a candle has been appended to the full deque since.
C3_FullDequeSnapshot ==
    /\ rpc = "draw"
    /\ maxlen = MaxCap
    /\ Len(df) = maxlen
    /\ Len(live_candles) = maxlen
    /\ last.branch = "append"
    /\ df # live_candles

\* C4: appending a candle with a greater time evicts exactly the oldest candle
\* of a full series and nothing of a series that is not full, keeps an
\* ascending series ascending, and with capacity 3 turns times 1,2,3 plus an
\* update at time 4 into times 2,3,4.
C4_AppendEvictsOldest ==
    [][LET m == last'.msg IN
          (CandleStep /\ ParsedCandle(m).time > LastOf(live_candles).time)
          => /\ Len(live_candles) = maxlen
                => live_candles' = Tail(live_candles) \o <<ParsedCandle(m)>>
             /\ Len(live_candles) < maxlen
                => live_candles' = live_candles \o <<ParsedCandle(m)>>
             /\ Ascending(live_candles) => Ascending(live_candles')
             /\ (maxlen = 3 /\ TimesOf(live_candles) = <<1, 2, 3>>
                 /\ ParsedCandle(m).time = 4)
                => TimesOf(live_candles') = <<2, 3, 4>>]_vars

\* C4 witness: capacity 3, the update at time 4 was appended last and the
\* series holds times 2,3,4, the candles at 3 and 4 both from live updates.
C4_Evicted ==
    /\ maxlen = 3
    /\ last.branch = "append"
    /\ last.msg = PlainCandleMsg(4, 99)
    /\ TimesOf(live_candles) = <<2, 3, 4>>
    /\ live_candles[2].close = 99

\* C5: a candle update whose time equals the last candle's time replaces that
\* candle in place: same length, earlier candles untouched, the last candle
\* carries the update's fields, nothing evicted even from a full series.
C5_EqualTimeReplacesLast ==
    [][LET m == last'.msg IN
          (CandleStep /\ ParsedCandle(m).time = LastOf(live_candles).time)
          => /\ Len(live_candles') = Len(live_candles)
             /\ \A i \in 1..(Len(live_candles) - 1) : live_candles'[i] = live_candles[i]
             /\ LastOf(live_candles').time = m.candle_start_time.v \div Micro
             /\ LastOf(live_candles').open = m.open.v
             /\ LastOf(live_candles').high = m.high.v
             /\ LastOf(live_candles').low = m.low.v
             /\ LastOf(live_candles').close = m.close.v
             /\ LastOf(live_candles').volume = (IF m.volume.k = "num" THEN m.volume.v ELSE 0)]_vars

\* C5 witness: the last message replaced the last candle of a full series of
\* the largest capacity, whose first candle is still the first backfilled one.
C5_ReplacedAtCapacity ==
    /\ maxlen = MaxCap
    /\ Len(live_candles) = maxlen
    /\ last.branch = "replace"
    /\ last.msg.close = Num(99)
    /\ LastOf(live_candles).close = 99
    /\ live_candles[1] = HistCandle(1)

\* C6: an alert is a one-shot latch: it prints at most one ALERT line, its
\* triggered flag never goes back to false, a triggered alert is skipped, and
\* an 'above' alert at 100 stays armed at price 99, fires once at price 100
\* and does not fire again at price 150.
C6_OneShotLatch ==
    [][\A i \in DOMAIN price_alerts :
          /\ Len(fired'[i]) <= 1
          /\ price_alerts'[i].triggered <=> Len(fired'[i]) = 1
          /\ price_alerts[i].triggered
             => price_alerts'[i] = price_alerts[i] /\ fired'[i] = fired[i]
          /\ (HandlerStep /\ live_candles' # << >>
              /\ price_alerts[i].type = "above" /\ price_alerts[i].price = 100)
             => LET p == LastOf(live_candles').close IN
                /\ (p = 99 /\ ~price_alerts[i].triggered)
                   => ~price_alerts'[i].triggered /\ fired'[i] = fired[i]
                /\ (p = 100 /\ ~price_alerts[i].triggered)
                   => price_alerts'[i].triggered /\ fired'[i] = <<100>>
                /\ (p = 150 /\ price_alerts[i].triggered)
                   => fired'[i] = fired[i]]_vars

\* C6 witness: an 'above' alert at 100 printed its one ALERT at price 100 and
\* the message handled last then evaluated price 150.
C6_FiredOnceThenHigher ==
    \E i \in DOMAIN price_alerts :
        /\ price_alerts[i] = [price |-> 100, type |-> "above", triggered |-> TRUE]
        /\ fired[i] = <<100>>
        /\ last.msg = PlainCandleMsg(MaxTime, 150)
        /\ LastOf(live_candles).close = 150

\* C7: after a candle update or a ticker update is handled, every armed alert
\* the close carried by that message satisfies is triggered.
C7_AlertsSeeMessageClose ==
    [][LET m == last'.msg IN
          (HandlerStep /\ last'.outcome \in {"candle", "ticker"} /\ m.close.k = "num")
          => \A i \in DOMAIN price_alerts :
                (/\ ~price_alerts[i].triggered
                 /\ \/ price_alerts[i].type = "above" /\ price_alerts[i].price <= m.close.v
                    \/ price_alerts[i].type = "below" /\ price_alerts[i].price >= m.close.v)
                => price_alerts'[i].triggered]_vars

\* A candle message one of whose open, high, low, close is absent, no number
\* or negative, or whose volume is present and no number or negative.
MalformedCandle(m) ==
    /\ m.wire = "object"
    /\ IsCandleMsg(m)
    /\ \/ \E f \in {m.open, m.high, m.low, m.close} : f.k # "num" \/ f.v < 0
       \/ m.volume.k = "bad"
       \/ m.volume.k = "num" /\ m.volume.v < 0

\* C8: a candle message with an unparseable, missing or negative number is not
\* applied: it leaves the series unchanged.
C8_MalformedNotApplied ==
    [][LET m == last'.msg IN
          (HandlerStep /\ MalformedCandle(m)) => live_candles' = live_candles]_vars

C10_SnapshotValid ==
    rpc = "draw"
    => Ascending(df) /\ DistinctTimes(df) /\ Len(df) <= maxlen

\* C11: a bulk load whose input is empty or not strictly time-ascending
\* fails and leaves the series unchanged: none of its candles is stored.
C11_BadBulkLoadRejected ==
    [][\A r \in AnyResponses :
          (Fetch(r) /\ (r.result = << >> \/ ~Ascending(r.result)))
          => live_candles' = live_candles /\ pc' = "failed"]_vars

\* C12: a candle update whose time is at least the last candle's time, applied
\* to an empty or ascending series, leaves the series strictly ascending and
\* without duplicate times.
C12_InOrderKeepsAscending ==
    [][(/\ HandlerStep
        /\ last'.outcome = "candle"
        /\ Ascending(live_candles)
        /\ (live_candles # << >>
            => ParsedCandle(last'.msg).time >= LastOf(live_candles).time))
       => Ascending(live_candles') /\ DistinctTimes(live_candles')]_vars

\* C12 witness: an ascending series of the largest capacity whose last candle
\* was refined in place by the message handled last.
C12_AscendingAfterRefine ==
    /\ Len(live_candles) = MaxCap
    /\ Ascending(live_candles)
    /\ last.branch = "replace"
    /\ LastOf(live_candles).time = MaxTime
    /\ LastOf(live_candles).close = 99

\* The armed alerts a price satisfies.
Satisfied(alerts, p) ==
    {i \in DOMAIN alerts :
        /\ ~alerts[i].triggered
        /\ \/ alerts[i].type = "above" /\ p >= alerts[i].price
           \/ alerts[i].type = "below" /\ p <= alerts[i].price}

\* C13: one evaluate call checks every armed alert in registration order: an
\* alert fires iff it is armed and the price satisfies it, whatever the
\* other alerts do, and duplicates fire each on their own.
C13_EveryArmedAlertChecked ==
    [][(HandlerStep /\ live_candles' # << >>)
       => LET p == LastOf(live_candles').close
              F == Satisfied(price_alerts, p)
              lines == last'.printed
          IN /\ \A i \in DOMAIN price_alerts :
                   /\ price_alerts'[i].triggered <=> (price_alerts[i].triggered \/ i \in F)
                   /\ fired'[i] = IF i \in F THEN Append(fired[i], p) ELSE fired[i]
             /\ {lines[k] : k \in DOMAIN lines} = F
             /\ \A k \in 1..(Len(lines) - 1) : lines[k] < lines[k + 1]]_vars

\* C13 witness: two alerts with the same threshold and direction were both
\* fired, first to last, by the message handled last.
C13_DuplicatesBothFired ==
    /\ Len(price_alerts) >= 2
    /\ price_alerts[1] = price_alerts[2]
    /\ price_alerts[1].triggered
    /\ last.printed = <<1, 2>>
    /\ fired[1] = fired[2]

\* C14: the stored candle's time is candle_start_time floor-divided by 10^6:
\* the start time lies in the microsecond range of that second, a start of
\* 1_700_000_000_000_000 gives time 1_700_000_000, and so does a start
\* later within the same second.
C14_TimeIsFloorOfMicros ==
    [][(HandlerStep /\ last'.outcome = "candle")
       => LET cst == last'.msg.candle_start_time
              t == LastOf(live_candles').time
          IN /\ cst.k = "num" => (cst.v - t * Micro) \in 0..(Micro - 1)
             /\ cst \in {EpochStart, EpochLate} => t = 1700000000]_vars

\* C14 witness: a candle stamped 1_700_000_000_999_999 replaced the candle of
\* second 1_700_000_000 in place.
C14_SameSecondSameKey ==
    /\ last.msg.candle_start_time = EpochLate
    /\ last.branch = "replace"
    /\ LastOf(live_candles).time = 1700000000
    /\ LastOf(live_candles).close = 100


\* The subscribe requests of claim C15: candle channel, then ticker channel,
\* both for ETHUSD.
BothSubscribed ==
    << [type |-> "subscribe", name |-> "candlestick_1m", symbols |-> <<"ETHUSD">>],
       [type |-> "subscribe", name |-> "v2/ticker", symbols |-> <<"ETHUSD">>] >>

\* C15: nothing is sent before the connection opens; the step that opens the
\* connection sends exactly the candle subscribe then the ticker subscribe
\* for ETHUSD; no other step sends anything, so each channel is asked once.
C15_TwoSubscribesOnOpen ==
    /\ [](ws \in {"none", "connecting"} => sent = << >>)
    /\ [](ws = "open" => sent = BothSubscribed)
    /\ [][((ws # "open" /\ ws' = "open") => (sent = << >> /\ sent' = BothSubscribed))
          /\ ((sent' # sent) => (ws = "connecting" /\ ws' = "open"))]_vars

\* C15 witness: the connection is open, both requests went out, and a candle
\* update has been handled since without a further request.
C15_SubscribedThenFed ==
    /\ ws = "open"
    /\ sent = BothSubscribed
    /\ last.outcome = "candle"


\* A one-minute ETHUSD candle message with a start time and numeric open,
\* high, low and close.
ValidOHLC(m) ==
    /\ m.wire = "object"
    /\ m.type = "candlestick_1m"
    /\ m.symbol = "ETHUSD"
    /\ m.candle_start_time.k = "num"
    /\ \A f \in {m.open, m.high, m.low, m.close} : f.k = "num"

\* The candle a message with valid OHLC stands for when its volume counts as
\* zero.
ZeroVolumeCandle(m) ==
    [time |-> m.candle_start_time.v \div Micro, open |-> m.open.v, high |-> m.high.v,
     low |-> m.low.v, close |-> m.close.v, volume |-> 0]

\* C16 as stated: a candle message with valid OHLC whose volume is missing or
\* malformed is applied to the series with volume zero.
C16_VolumeDefaultsToZero ==
    [][LET m == last'.msg IN
          (HandlerStep /\ ValidOHLC(m) /\ m.volume.k \in {"missing", "bad"})
          => /\ live_candles' # << >>
             /\ LastOf(live_candles') = ZeroVolumeCandle(m)]_vars

\* C16 as amended: a candle message with valid OHLC and no volume field is
\* applied with volume zero; one whose volume field is present and no number
\* is dropped like any other unparseable candle, the series unchanged.
C16_OnlyMissingVolumeDefaults ==
    [][LET m == last'.msg IN
          (HandlerStep /\ ValidOHLC(m))
          => /\ m.volume.k = "missing"
                => /\ last'.outcome = "candle"
                   /\ live_candles' # << >>
                   /\ LastOf(live_candles') = ZeroVolumeCandle(m)
             /\ m.volume.k = "bad"
                => /\ last'.outcome = "error"
                   /\ live_candles' = live_candles]_vars

\* C16 witness: a candle without a volume field was applied with volume zero
\* while the candle before it kept its own volume.
C16_MissingVolumeApplied ==
    /\ last.msg.volume.k = "missing"
    /\ last.outcome = "candle"
    /\ LastOf(live_candles).volume = 0
    /\ Len(live_candles) >= 2
    /\ live_candles[Len(live_candles) - 1].volume # 0


\* C17: handling a message whose outcome is ignored or malformed leaves the
\* triggered flag of every registered alert unchanged and prints no ALERT.
C17_DroppedMessageKeepsAlerts ==
    [][(HandlerStep /\ last'.outcome \in {"ignored", "error", "json_error"})
       => /\ \A i \in DOMAIN price_alerts :
                price_alerts'[i].triggered = price_alerts[i].triggered
          /\ last'.printed = << >>]_vars


\* C18: a candle that is not the last element of the series is never
\* rewritten: across every step the candles before the last either stay
\* where they are or move one place towards the front, the first evicted.
C18_ClosedCandleImmutable ==
    [][LET n == Len(live_candles) IN
          n >= 1
          => \/ /\ Len(live_candles') >= n
                /\ SubSeq(live_candles', 1, n - 1) = SubSeq(live_candles, 1, n - 1)
             \/ /\ Len(live_candles') = n
                /\ n = maxlen
                /\ SubSeq(live_candles', 1, n - 1) = SubSeq(live_candles, 2, n)]_vars

\* C18 witness: an update carrying the time of the closed first candle and
\* another close was handled, and the first candle is still the backfilled
\* one, the update stored behind the last.
C18_ClosedCandleKept ==
    /\ Len(live_candles) = 3
    /\ live_candles[1] = HistCandle(1)
    /\ last.msg = PlainCandleMsg(1, 99)
    /\ last.branch = "append"
    /\ LastOf(live_candles).time = 1


\* C19: a message that is not a one-minute ETHUSD candle update (a ticker, a
\* message for another symbol or of another kind, text of unrecognized shape)
\* leaves the series unchanged and the connection as it was; no ticker is
\* ever stored in the series.
C19_OtherMessagesLeaveSeries ==
    [][LET m == last'.msg IN
          (HandlerStep
           /\ ~(m.wire = "object" /\ m.type = "candlestick_1m" /\ m.symbol = "ETHUSD"))
          => /\ live_candles' = live_candles
             /\ ws' = ws
             /\ ws' = "open"
             /\ pc' = pc]_vars

\* C19 witness: the ticker at price 150 was handled, the connection is still
\* open and no candle of the series carries the ticker's price.
C19_TickerNotStored ==
    /\ last.outcome = "ticker"
    /\ last.msg.close = Num(150)
    /\ ws = "open"
    /\ live_candles # << >>
    /\ \A i \in DOMAIN live_candles : live_candles[i].close # 150


\* The series right after a successful backfill, for every history response.
Backfills ==
    {append_all(<< >>, r.result, maxlen) : r \in {x \in Responses : fetch_ok(x)}}

\* C20: the backfill is loaded before the connection is opened: a connection
\* exists only once the backfill has completed, the backfill step runs with
\* no connection and no message handled, every message is handled after it,
\* and a candle update that meets the series as backfilled and carries the
\* time of its last candle replaces that candle without adding a duplicate.
C20_BackfillBeforeLive ==
    /\ [](ws # "none" => (pc = "running" /\ live_candles # << >>))
    /\ [][((pc = "start" /\ pc' # "start") => (ws = "none" /\ last.outcome = "none"))
          /\ (HandlerStep => (pc = "running" /\ live_candles # << >>))
          /\ ((HandlerStep /\ last'.outcome = "candle" /\ live_candles \in Backfills
               /\ ParsedCandle(last'.msg).time = LastOf(live_candles).time)
              => (/\ Len(live_candles') = Len(live_candles)
                  /\ live_candles' = [live_candles EXCEPT ![Len(live_candles)] = ParsedCandle(last'.msg)]
                  /\ (DistinctTimes(live_candles) => DistinctTimes(live_candles'))))]_vars

\* C20 witness: the series is the backfill of two or more candles with its
\* last candle replaced by a live candle of the same time and another close.
C20_FirstLiveCandleReplaced ==
    \E b \in Backfills :
        /\ Len(b) >= 2
        /\ Len(live_candles) = Len(b)
        /\ last.branch = "replace"
        /\ last.msg.close = Num(99)
        /\ live_candles = [b EXCEPT ![Len(b)] = ParsedCandle(last.msg)]
        /\ live_candles # b

====
